---- MODULE Spec2Model ----
(***************************************************************************)
(* Model of infrastructure/utilities/cli.py: executeCommand,               *)
(* runWithRetries and runWithOutput.                                       *)
(*                                                                         *)
(* A text is a sequence of one-character strings.  The collaborators (the  *)
(* diagnostics module, the logger, time.sleep and the subprocess launcher) *)
(* are observed through `events', the ordered list of the calls made to    *)
(* them.  The child's fate (exit 0, non-zero exit, failure to launch) is   *)
(* an input chosen at each launch.                                         *)
(***************************************************************************)
EXTENDS Integers, Sequences, FiniteSets

\* ------------------------------------------------------------------ bounds
MaxCmdLen  == 4     \* longest single-string command
MaxTokens  == 2     \* longest pre-tokenized command
MaxRetries == 3     \* largest retries argument
MaxDelay   == 2     \* largest delay argument
MaxOutLen  == 2     \* longest captured output

\* ------------------------------------------------------------------ texts
Alphabet   == {"a", " ", "\t"}
Whitespace == {" ", "\t"}

TextsUpTo(n) == UNION {[1..k -> Alphabet] : k \in 0..n}

\* str.lstrip() / str.rstrip() / str.strip() with no argument
RECURSIVE LStrip(_)
LStrip(s) ==
  IF s # <<>> /\ Head(s) \in Whitespace THEN LStrip(Tail(s)) ELSE s

RECURSIVE RStrip(_)
RStrip(s) ==
  IF s # <<>> /\ s[Len(s)] \in Whitespace
    THEN RStrip(SubSeq(s, 1, Len(s) - 1))
    ELSE s

Strip(s) == RStrip(LStrip(s))

\* str.split(" "): cut at every single space character, keeping empty pieces
RECURSIVE SplitOnSpace(_)
SplitOnSpace(s) ==
  IF \E i \in 1..Len(s) : s[i] = " "
    THEN LET i == CHOOSE j \in 1..Len(s) :
                    s[j] = " " /\ \A k \in 1..(j-1) : s[k] # " "
         IN <<SubSeq(s, 1, i - 1)>> \o SplitOnSpace(SubSeq(s, i + 1, Len(s)))
    ELSE <<s>>

\* " ".join(tokens)
RECURSIVE Join(_)
Join(tokens) ==
  IF tokens = <<>> THEN <<>>
  ELSE IF Len(tokens) = 1 THEN tokens[1]
  ELSE tokens[1] \o <<" ">> \o Join(Tail(tokens))

\* str(n) for an integer
RECURSIVE Digits(_)
Digits(n) ==
  LET d == <<"0","1","2","3","4","5","6","7","8","9">>[(n % 10) + 1]
  IN IF n < 10 THEN <<d>> ELSE Digits(n \div 10) \o <<d>>

IntToStr(n) == IF n < 0 THEN <<"-">> \o Digits(0 - n) ELSE Digits(n)

\* t occurs in s as a contiguous run
Contains(s, t) ==
  \E i \in 1..(Len(s) - Len(t) + 1) : SubSeq(s, i, i + Len(t) - 1) = t

\* --------------------------------------------------------------- commands
\* isinstance(command, basestring) is the isString field
StrCommand(text)    == [isString |-> TRUE,  text |-> text, tokens |-> <<>>]
ListCommand(tokens) == [isString |-> FALSE, text |-> <<>>, tokens |-> tokens]

Tokens   == {<<c>> : c \in Alphabet}
Commands ==
  {StrCommand(t) : t \in TextsUpTo(MaxCmdLen)}
    \cup {ListCommand(ts) : ts \in UNION {[1..k -> Tokens] : k \in 0..MaxTokens}}

\* lines 58-59 and 123-124: the rebinding of `command'
Normalize(cmd) ==
  IF cmd.isString THEN ListCommand(SplitOnSpace(Strip(cmd.text))) ELSE cmd

\* ------------------------------------------------------------ the launcher
\* What a child can do once handed to subprocess: exit 0 (with some captured
\* output under check_output), exit non-zero (CalledProcessError), or fail
\* to launch at all (any other exception).
LaunchErrors ==
  { [type |-> "OSError",   msg |-> <<"E","N","O","E","N","T">>],
    [type |-> "TypeError", msg |-> <<"e","n","v">>] }

Exit0(out)    == [status |-> "ok",      out |-> out,  errType |-> "",     errMsg |-> <<>>]
NonZero       == [status |-> "nonzero", out |-> <<>>, errType |-> "",     errMsg |-> <<>>]
LaunchFail(e) == [status |-> "error",   out |-> <<>>, errType |-> e.type, errMsg |-> e.msg]

\* An empty argument list or an empty program name can never be executed.
Results(argv, capture) ==
  {LaunchFail(e) : e \in LaunchErrors}
    \cup IF argv = <<>> \/ argv[1] = <<>>
           THEN {}
           ELSE {NonZero}
                  \cup {Exit0(o) : o \in IF capture THEN TextsUpTo(MaxOutLen) ELSE {<<>>}}

\* ---------------------------------------------------------------- outcomes
NoOutcome              == [kind |-> "none",     type |-> "",   text |-> <<>>, line |-> 0]
Returned(text, line)   == [kind |-> "returned", type |-> "",   text |-> text, line |-> line]
Raised(type, msg, line) == [kind |-> "raised",  type |-> type, text |-> msg,  line |-> line]

\* ------------------------------------------------------------------ events
Envs      == {"os.environ", "custom"}
OsEnviron == "os.environ"

\* variant: the diagnostics call is given the ambient environment
DiagEvents_Ambient(e, pe) ==
  IF pe THEN << [kind |-> "printEnv", env |-> OsEnviron] >> ELSE <<>>

\* lines 54-55 and 119-120
DiagEvents(e, pe) ==
  IF pe THEN << [kind |-> "printEnv", env |-> e] >> ELSE <<>>

\* lines 56-57 and 121-122
DebugEvents(cmd, lg) ==
  IF lg THEN << [kind |-> "debug", command |-> cmd] >> ELSE <<>>

\* lines 60 and 125
LaunchEvent(cmd, e, call, res) ==
  [kind |-> "launch", call |-> call, argv |-> cmd.tokens, env |-> e, result |-> res]

FailedPrefix ==
  <<"F","a","i","l","e","d"," ","t","o"," ","e","x","e","c","u","t","e"," ",
    "c","o","m","m","a","n","d",":"," ">>

\* lines 62-65 and 127-130, on the value `command' is bound to at that point
FailedMessage(cmd) ==
  IF cmd.isString THEN FailedPrefix \o cmd.text
                  ELSE FailedPrefix \o Join(cmd.tokens)

CheckCallPrefix ==
  <<"c","h","e","c","k","_","c","a","l","l"," ","f","a","i","l","e","d"," ",
    "f","o","r"," ","c","o","m","m","a","n","d","=">>

\* lines 134-139
ExceptionEvents(cmd, lg) ==
  IF lg
    THEN << [kind |-> "exception",
             msg  |-> IF cmd.isString
                        THEN <<CheckCallPrefix \o <<"%","s">>, cmd.text>>
                        ELSE CheckCallPrefix \o Join(cmd.tokens)] >>
    ELSE <<>>

\* ---------------------------------------------------------- executeCommand
\* lines 53-66, for a child that does `res'
ExecuteCommandRun(cmd, e, pe, lg, res) ==
  LET argv == Normalize(cmd)
      pre  == DiagEvents(e, pe) \o DebugEvents(cmd, lg)
                \o <<LaunchEvent(argv, e, "check_output", res)>>
  IN CASE res.status = "ok" ->
            [events |-> pre, outcome |-> Returned(Strip(res.out), 60)]
       [] res.status = "nonzero" ->
            [events |-> pre,
             outcome |-> Raised("CommandFailedError", FailedMessage(argv), 66)]
       [] OTHER ->
            [events |-> pre, outcome |-> Raised(res.errType, res.errMsg, 60)]

\* ----------------------------------------------------------- runWithOutput
\* line 131
ConvertNonZero(argv) == Raised("CommandFailedError", FailedMessage(argv), 131)

\* variant: every failure of the launch is wrapped as CommandFailedError
Reraise_Convert(res) == Raised("CommandFailedError", res.errMsg, 140)

\* line 140
Reraise(res) == Raised(res.errType, res.errMsg, 140)

\* lines 118-140, for a child that does `res'
RunWithOutputRun(cmd, e, pe, lg, res) ==
  LET argv == Normalize(cmd)
      pre  == DiagEvents(e, pe) \o DebugEvents(cmd, lg)
                \o <<LaunchEvent(argv, e, "check_call", res)>>
  IN CASE res.status = "ok" ->
            [events |-> pre, outcome |-> Returned(<<>>, 125)]
       [] res.status = "nonzero" ->
            [events |-> pre, outcome |-> ConvertNonZero(argv)]
       [] OTHER ->
            [events |-> pre \o ExceptionEvents(argv, lg), outcome |-> Reraise(res)]

\* ---------------------------------------------------------- runWithRetries
\* The % operator of a format string on a tuple of arguments, as far as the
\* module uses it: conversions s and f, the space flag, and %%.
StrArg(text) == [isInt |-> FALSE, text |-> text, int |-> 0]
IntArg(n)    == [isInt |-> TRUE,  text |-> <<>>, int |-> n]

FormatOk(text)       == [ok |-> TRUE,  text |-> text, type |-> ""]
FormatError(type, m) == [ok |-> FALSE, text |-> m,    type |-> type]

ArgToStr(a) == IF a.isInt THEN IntToStr(a.int) ELSE a.text

FloatToStr(n, space) ==
  (IF n < 0 THEN <<"-">> ELSE IF space THEN <<" ">> ELSE <<>>)
    \o Digits(IF n < 0 THEN 0 - n ELSE n) \o <<".","0","0","0","0","0","0">>

FloatRequired ==
  <<"f","l","o","a","t"," ","a","r","g","u","m","e","n","t"," ",
    "r","e","q","u","i","r","e","d",","," ","n","o","t"," ","s","t","r">>
NotEnoughArgs == <<"n","o","t"," ","e","n","o","u","g","h"," ","a","r","g","s">>
NotAllConverted ==
  <<"n","o","t"," ","a","l","l"," ","c","o","n","v","e","r","t","e","d">>
BadFormatChar == <<"u","n","s","u","p","p","o","r","t","e","d">>

RECURSIVE PyFormatFrom(_, _, _)
PyFormatFrom(fmt, args, acc) ==
  IF fmt = <<>>
    THEN IF args = <<>> THEN FormatOk(acc)
                        ELSE FormatError("TypeError", NotAllConverted)
  ELSE IF Head(fmt) # "%"
    THEN PyFormatFrom(Tail(fmt), args, acc \o <<Head(fmt)>>)
  ELSE
    LET rest  == Tail(fmt)
        space == rest # <<>> /\ Head(rest) = " "
        spec  == IF space THEN Tail(rest) ELSE rest
    IN IF spec = <<>> THEN FormatError("ValueError", BadFormatChar)
       ELSE IF Head(spec) = "%" THEN PyFormatFrom(Tail(spec), args, acc \o <<"%">>)
       ELSE IF args = <<>> THEN FormatError("TypeError", NotEnoughArgs)
       ELSE IF Head(spec) = "s"
         THEN PyFormatFrom(Tail(spec), Tail(args), acc \o ArgToStr(Head(args)))
       ELSE IF Head(spec) = "f"
         THEN IF Head(args).isInt
                THEN PyFormatFrom(Tail(spec), Tail(args),
                                  acc \o FloatToStr(Head(args).int, space))
                ELSE FormatError("TypeError", FloatRequired)
       ELSE FormatError("ValueError", BadFormatChar)

PyFormat(fmt, args) == PyFormatFrom(fmt, args, <<>>)

\* the literal of lines 99 and 101
FailedAfterFormat ==
  <<"%"," ","f","a","i","l","e","d"," ","a","f","t","e","r"," ",
    "%","s"," ","a","t","t","e","m","p","t","s">>

\* lines 98-103
TerminalFailure(cmd, n) ==
  LET errMessage ==
        IF cmd.isString
          THEN PyFormat(FailedAfterFormat, <<StrArg(cmd.text), IntArg(n)>>)
          ELSE PyFormat(FailedAfterFormat, <<StrArg(Join(cmd.tokens)), IntArg(n)>>)
  IN IF errMessage.ok
       THEN Raised("CommandFailedError", errMessage.text, 103)
       ELSE Raised(errMessage.type, errMessage.text, IF cmd.isString THEN 99 ELSE 101)

\* variant: the loop test admits one attempt too many
LoopCondition_Inclusive(a, n) == a <= n

\* line 87
LoopCondition(a, n) == a < n

\* lines 93-95
NoticeEvents(a, cmd, d, lg) ==
  IF lg THEN << [kind |-> "notice", attempt |-> a, command |-> cmd, delay |-> d] >>
        ELSE <<>>

\* variant: the sleep grows with the attempt number
SleepEvents_Backoff(a, d) == << [kind |-> "sleep", seconds |-> d * a] >>

\* line 96
SleepEvents(a, d) == << [kind |-> "sleep", seconds |-> d] >>

\* ------------------------------------------------------------------- state
VARIABLES
  op,        \* the function the caller invoked
  command,   \* its arguments
  env,
  printEnv,
  logger,    \* TRUE when a logger was given
  retries,
  delay,
  attempts,  \* runWithRetries' local
  pc,        \* where the invoked function stands
  events,    \* calls made to the collaborators so far, in order
  outcome    \* how the invoked function ended

vars == <<op, command, env, printEnv, logger, retries, delay, attempts, pc,
          events, outcome>>

callArgs == <<op, command, env, printEnv, logger, retries, delay>>

Init ==
  /\ op = "none"
  /\ command = ListCommand(<<>>)
  /\ env = OsEnviron
  /\ printEnv = FALSE
  /\ logger = FALSE
  /\ retries = 1
  /\ delay = 1
  /\ attempts = 0
  /\ pc = "idle"
  /\ events = <<>>
  /\ outcome = NoOutcome

\* executeCommand(command, env, printEnv, logger), lines 32-66
executeCommand ==
  /\ pc = "idle"
  /\ \E cmd \in Commands, e \in Envs, pe \in BOOLEAN, lg \in BOOLEAN :
       \E res \in Results(Normalize(cmd).tokens, TRUE) :
         LET run == ExecuteCommandRun(cmd, e, pe, lg, res)
         IN /\ op' = "executeCommand"
            /\ command' = cmd
            /\ env' = e
            /\ printEnv' = pe
            /\ logger' = lg
            /\ events' = run.events
            /\ outcome' = run.outcome
            /\ pc' = "done"
  /\ UNCHANGED <<retries, delay, attempts>>

\* runWithOutput(command, env, printEnv, logger), lines 106-140
runWithOutput ==
  /\ pc = "idle"
  /\ \E cmd \in Commands, e \in Envs, pe \in BOOLEAN, lg \in BOOLEAN :
       \E res \in Results(Normalize(cmd).tokens, FALSE) :
         LET run == RunWithOutputRun(cmd, e, pe, lg, res)
         IN /\ op' = "runWithOutput"
            /\ command' = cmd
            /\ env' = e
            /\ printEnv' = pe
            /\ logger' = lg
            /\ events' = run.events
            /\ outcome' = run.outcome
            /\ pc' = "done"
  /\ UNCHANGED <<retries, delay, attempts>>

\* runWithRetries(command, retries, delay, printEnv, logger): entry, line 86
runWithRetries ==
  /\ pc = "idle"
  /\ \E cmd \in Commands, n \in (0 - 1)..MaxRetries, d \in 0..MaxDelay,
        pe \in BOOLEAN, lg \in BOOLEAN :
       /\ op' = "runWithRetries"
       /\ command' = cmd
       /\ retries' = n
       /\ delay' = d
       /\ printEnv' = pe
       /\ logger' = lg
  /\ attempts' = 0
  /\ pc' = "while"
  /\ UNCHANGED <<env, events, outcome>>

\* lines 87-88: the loop test and the increment
RetryWhile ==
  /\ pc = "while"
  /\ IF LoopCondition(attempts, retries)
       THEN /\ attempts' = attempts + 1
            /\ pc' = "try"
       ELSE /\ pc' = "terminal"
            /\ UNCHANGED attempts
  /\ UNCHANGED <<callArgs, events, outcome>>

\* variant: the return of line 91 is missing
AttemptExit_NoReturn(o) ==
  IF o.kind = "returned"
    THEN [pc |-> "while", outcome |-> NoOutcome]
  ELSE IF o.type = "CommandFailedError"
    THEN [pc |-> "except", outcome |-> NoOutcome]
  ELSE [pc |-> "done", outcome |-> o]

\* variant: the except clause of line 92 catches every exception
AttemptExit_CatchAll(o) ==
  IF o.kind = "returned"
    THEN [pc |-> "done", outcome |-> Returned(<<>>, 91)]
    ELSE [pc |-> "except", outcome |-> NoOutcome]

\* lines 90-92: what the try statement does with the way runWithOutput ended
AttemptExit(o) ==
  IF o.kind = "returned"
    THEN [pc |-> "done", outcome |-> Returned(<<>>, 91)]
  ELSE IF o.type = "CommandFailedError"
    THEN [pc |-> "except", outcome |-> NoOutcome]
  ELSE [pc |-> "done", outcome |-> o]

\* lines 89-92: one call of runWithOutput with the default environment
RetryTry ==
  /\ pc = "try"
  /\ \E res \in Results(Normalize(command).tokens, FALSE) :
       LET run == RunWithOutputRun(command, OsEnviron, printEnv, logger, res)
           nxt == AttemptExit(run.outcome)
       IN /\ events' = events \o run.events
          /\ outcome' = nxt.outcome
          /\ pc' = nxt.pc
  /\ UNCHANGED <<callArgs, attempts>>

\* lines 93-96: the retry notice and the sleep
RetryExcept ==
  /\ pc = "except"
  /\ events' = events \o NoticeEvents(attempts, command, delay, logger)
                      \o SleepEvents(attempts, delay)
  /\ pc' = "while"
  /\ UNCHANGED <<callArgs, attempts, outcome>>

\* lines 98-103
RetryTerminal ==
  /\ pc = "terminal"
  /\ outcome' = TerminalFailure(command, retries)
  /\ pc' = "done"
  /\ UNCHANGED <<callArgs, attempts, events>>

Next ==
  \/ executeCommand
  \/ runWithOutput
  \/ runWithRetries
  \/ RetryWhile
  \/ RetryTry
  \/ RetryExcept
  \/ RetryTerminal

Spec == Init /\ [][Next]_vars

\* ============================================================== properties
\* Readings of the event list
LaunchIdx   == {i \in DOMAIN events : events[i].kind = "launch"}
LaunchesOf(st) == {i \in LaunchIdx : events[i].result.status = st}
Count(k)    == Cardinality({i \in DOMAIN events : events[i].kind = k})
LaunchesBefore(i) == Cardinality({j \in LaunchIdx : j < i})

\* the command text as the caller gave it
CommandText(cmd) == IF cmd.isString THEN cmd.text ELSE Join(cmd.tokens)

\* the maximal runs of non-whitespace characters of a text
RECURSIVE Fields(_)
Fields(s) ==
  LET t == LStrip(s)
  IN IF t = <<>> THEN <<>>
     ELSE LET n == CHOOSE k \in 1..Len(t) :
                     /\ \A j \in 1..k : t[j] \notin Whitespace
                     /\ (k = Len(t) \/ t[k+1] \in Whitespace)
          IN <<SubSeq(t, 1, n)>> \o Fields(SubSeq(t, n + 1, Len(t)))

\* C1: with retries >= 1 and every attempt exiting non-zero, runWithRetries
\* launches the run exactly `retries' times and ends by raising
\* CommandFailedError, never returning and never raising another error.
C1_AllFailRaisesCommandFailed ==
  ( /\ op = "runWithRetries"
    /\ retries >= 1
    /\ pc = "done"
    /\ LaunchIdx = LaunchesOf("nonzero") )
  => /\ Cardinality(LaunchIdx) = retries
     /\ outcome.kind = "raised"
     /\ outcome.type = "CommandFailedError"

\* C2: when attempt k exits 0 after k-1 non-zero exits, runWithRetries has
\* made exactly k attempts and returns normally; nothing follows the
\* successful launch: no launch, no sleep, no raise.
C2_SuccessReturnsAtOnce ==
  op = "runWithRetries" =>
    \A i \in LaunchesOf("ok") :
      /\ i = Len(events)
      /\ \A j \in LaunchIdx : j < i => events[j].result.status = "nonzero"
      /\ Cardinality(LaunchIdx) = attempts
      /\ attempts <= retries
      /\ Count("sleep") = attempts - 1
      /\ pc = "done"
      /\ outcome.kind = "returned"

C2_Witness ==
  /\ op = "runWithRetries"
  /\ retries = 3
  /\ pc = "done"
  /\ outcome.kind = "returned"
  /\ Cardinality(LaunchIdx) = 3
  /\ Cardinality(LaunchesOf("nonzero")) = 2

\* C3: inside runWithRetries a launch-level failure of an attempt ends the
\* call at once, on whichever attempt: no later launch, notice or sleep, the
\* remaining retries unused, and the original error reaches the caller.
C3_LaunchFailureAborts ==
  op = "runWithRetries" =>
    \A i \in LaunchesOf("error") :
      /\ pc = "done"
      /\ outcome.kind = "raised"
      /\ outcome.type = events[i].result.errType
      /\ outcome.text = events[i].result.errMsg
      /\ outcome.type # "CommandFailedError"
      /\ \A j \in (i+1)..Len(events) : events[j].kind = "exception"
      /\ Cardinality(LaunchIdx) = attempts

C3_Witness ==
  /\ op = "runWithRetries"
  /\ pc = "done"
  /\ LaunchesOf("error") # {}
  /\ attempts = 2
  /\ retries = 3
  /\ outcome.type = "OSError"

\* C4: for every command whose child exits non-zero, executeCommand and
\* runWithOutput raise CommandFailedError with a message that contains the
\* command text as the caller gave it, also for strings with leading,
\* trailing or repeated spaces.
C4_MessageHasOriginalCommand ==
  ( /\ op \in {"executeCommand", "runWithOutput"}
    /\ pc = "done"
    /\ LaunchesOf("nonzero") # {} )
  => /\ outcome.kind = "raised"
     /\ outcome.type = "CommandFailedError"
     /\ Contains(outcome.text, CommandText(command))

\* C5: a single-string command (one that names a program at all) reaches the
\* launcher as the sequence of its maximal non-whitespace runs, with no empty
\* token.
C5_TokensAreWhitespaceRuns ==
  (command.isString /\ Strip(command.text) # <<>>) =>
    \A i \in LaunchIdx :
      /\ events[i].argv = Fields(command.text)
      /\ \A k \in DOMAIN events[i].argv : events[i].argv[k] # <<>>

\* C6: with printEnv true every invocation of executeCommand and of
\* runWithOutput, each attempt of runWithRetries included, calls the
\* diagnostics collaborator exactly once, before the launch and with the
\* environment the launcher is then given; with printEnv false it is never
\* called.
C6_DiagnosticsOncePerInvocation ==
  pc # "idle" =>
    IF printEnv
      THEN /\ Count("printEnv") = Count("launch")
           /\ \A i \in LaunchIdx :
                \E j \in 1..(i-1) :
                  /\ events[j].kind = "printEnv"
                  /\ events[j].env = events[i].env
                  /\ \A k \in (j+1)..(i-1) : events[k].kind = "debug"
           /\ op # "runWithRetries" => \A i \in LaunchIdx : events[i].env = env
      ELSE Count("printEnv") = 0

C6_Witness ==
  /\ op = "runWithRetries"
  /\ printEnv
  /\ Count("launch") = 3
  /\ Count("printEnv") = 3

\* C7: the delay is applied after every attempt that fails with
\* CommandFailedError, the last included: as many sleeps as non-zero exits,
\* each of the caller's `delay', each right after its failed attempt (and
\* its notice) and before the next launch or the terminal failure, and the
\* notice of attempt i carries i.
C7_SleepAfterEveryFailure ==
  op = "runWithRetries" =>
    /\ Count("sleep") =
         Cardinality(LaunchesOf("nonzero")) - (IF pc = "except" THEN 1 ELSE 0)
    /\ Count("notice") = IF logger THEN Count("sleep") ELSE 0
    /\ \A i \in DOMAIN events :
         /\ events[i].kind = "sleep" =>
              /\ events[i].seconds = delay
              /\ \E j \in LaunchesOf("nonzero") :
                   /\ j < i
                   /\ \A k \in (j+1)..(i-1) : events[k].kind = "notice"
         /\ events[i].kind = "notice" =>
              /\ events[i].attempt = LaunchesBefore(i)
              /\ events[i].delay = delay
              /\ i < Len(events)
              /\ events[i+1].kind = "sleep"
    /\ (pc \in {"while", "terminal"} /\ attempts > 0) =>
         events[Len(events)].kind = "sleep"
    /\ (pc = "done" /\ outcome.line \in {99, 101, 103} /\ retries >= 1) =>
         /\ events[Len(events)].kind = "sleep"
         /\ Count("sleep") = retries

C7_Witness ==
  /\ op = "runWithRetries"
  /\ pc = "done"
  /\ retries = 2
  /\ delay = 2
  /\ logger
  /\ Count("sleep") = 2
  /\ Count("notice") = 2
  /\ events[Len(events)].kind = "sleep"

\* C8: in runWithOutput a failure other than a non-zero exit is re-raised
\* with its own type and message, never as CommandFailedError, and is logged
\* through logger.exception exactly once when there is a logger and not at
\* all otherwise; a non-zero exit always becomes CommandFailedError and is
\* never logged that way.
C8_OtherFailuresPassThrough ==
  op \in {"runWithOutput", "runWithRetries"} =>
    /\ Count("exception") =
         IF logger THEN Cardinality(LaunchesOf("error")) ELSE 0
    /\ \A i \in LaunchesOf("error") :
         /\ outcome.kind = "raised"
         /\ outcome.type = events[i].result.errType
         /\ outcome.text = events[i].result.errMsg
         /\ outcome.type # "CommandFailedError"
         /\ logger => (i < Len(events) /\ events[i+1].kind = "exception")
    /\ \A i \in LaunchesOf("nonzero") :
         /\ i < Len(events) => events[i+1].kind # "exception"
         /\ op = "runWithOutput" =>
              (outcome.kind = "raised" /\ outcome.type = "CommandFailedError")
         /\ (op = "runWithRetries" /\ i = Len(events)) => pc = "except"

C8_Witness ==
  /\ op = "runWithOutput"
  /\ pc = "done"
  /\ logger
  /\ LaunchesOf("error") # {}
  /\ Count("exception") = 1
  /\ outcome.type = "TypeError"

\* C9: after `retries' consecutive non-zero exits runWithRetries fails with
\* a CommandFailedError whose message embeds the command (the string, or
\* the tokens joined by spaces) and the retry count.
C9_TerminalMessageEmbeds ==
  ( /\ op = "runWithRetries"
    /\ retries >= 1
    /\ pc = "done"
    /\ Cardinality(LaunchesOf("nonzero")) = retries )
  => /\ outcome.kind = "raised"
     /\ outcome.type = "CommandFailedError"
     /\ Contains(outcome.text, CommandText(command))
     /\ Contains(outcome.text, IntToStr(retries))

\* C10: with retries <= 0 the loop body never runs: no launch, no
\* diagnostics call, no notice, no sleep, and the call goes straight to the
\* terminal-failure path; it does not return normally.
C10_NoAttemptWithoutBudget ==
  (op = "runWithRetries" /\ retries <= 0) =>
    /\ events = <<>>
    /\ attempts = 0
    /\ pc \in {"while", "terminal", "done"}
    /\ pc = "done" => (outcome.kind = "raised" /\ outcome.line \in {99, 101, 103})

C10_Witness ==
  /\ op = "runWithRetries"
  /\ retries <= 0
  /\ pc = "done"
  /\ outcome.kind = "raised"

====
